---------------------------- MODULE Spec2Model ----------------------------
(***************************************************************************)
(* A model of src/main.py: a Streamlit script that exchanges a refresh     *)
(* token for an access token, fetches the Netatmo station readings, shapes *)
(* them into rows (Time, Temperature, Device, Module), sorts the rows by   *)
(* Time and renders a chart, and keeps a log buffer in the session state.  *)
(*                                                                         *)
(* Two specifications:                                                     *)
(*   Spec        the script as Streamlit runs and re-runs it, from the     *)
(*               module-level code to the end of the run;                  *)
(*   SpecShaper  the body of prepare_data from line 106 on and the rest of *)
(*               main, applied to every payload of a bounded set (the      *)
(*               shaping loop as a function of `devices`).                 *)
(***************************************************************************)
EXTENDS Integers, Sequences, FiniteSets

VARIABLES
    pc,                 \* position of the script
    run,                \* number of script runs started in this session
    handlers,           \* StreamlitHandler objects attached to `logger`
    session_state,      \* st.session_state: [has_log_data, log_data]
    http,               \* HTTP requests sent during the current run
    response,           \* get_access_token: response
    access_token,       \* prepare_data: access_token
    response_data,      \* prepare_data: response_data
    exc,                \* the exception that ended the run, [type, line]
    devices,            \* prepare_data: devices
    i,                  \* number of stations the outer loop has taken
    j,                  \* number of modules the inner loop has taken
    device_name,        \* prepare_data: device_name
    modules,            \* prepare_data: modules
    max_temp,           \* prepare_data: max_temp
    data_list,          \* prepare_data: data_list
    device_data_counts, \* prepare_data: device_data_counts
    max_temps,          \* prepare_data: max_temps
    df,                 \* the rows of the DataFrame prepare_data returns
    screen              \* what the run has rendered, in order

vars == <<pc, run, handlers, session_state, http, response, access_token,
          response_data, exc, devices, i, j, device_name, modules, max_temp,
          data_list, device_data_counts, max_temps, df, screen>>

shaper_vars == <<devices, i, j, device_name, modules, max_temp, data_list,
                 device_data_counts, max_temps, df>>

-----------------------------------------------------------------------------
(* Bounds *)

\* a payload holds at most MaxRecords station and module records in all
MaxRecords == 2

\* a session re-runs the script at most MaxRuns times
MaxRuns == 5

-----------------------------------------------------------------------------
(* Values *)

StationNames == {"Kitchen", "Attic"}
ModuleNames == {"Balcony"}
\* temperatures in tenths of a degree: 14.2 and 21.5
Temps == {142, 215}
\* Unix epoch seconds, in units of an hour
Times == {0, 1, 2}

None == "None"
NoExc == [type |-> None, line |-> 0]
NoResponse == [transport |-> FALSE, is_json |-> FALSE, keys |-> {None}]
NotFetched == [type |-> None, items |-> <<>>]

\* float('-inf'): below every temperature
NegInf == -100000

-----------------------------------------------------------------------------
(* Python dicts: insertion-ordered sequences of <<key, value>> *)

DictHas(d, k) == \E n \in 1..Len(d) : d[n][1] = k

DictGet(d, k) == d[CHOOSE n \in 1..Len(d) : d[n][1] = k][2]

DictSet(d, k, v) ==
    IF DictHas(d, k)
    THEN [n \in 1..Len(d) |-> IF d[n][1] = k THEN <<k, v>> ELSE d[n]]
    ELSE Append(d, <<k, v>>)

-----------------------------------------------------------------------------
(* The vendor payload.  A JSON object is a record with a field `keys`, the *)
(* keys it holds; a field whose key is absent keeps a default value that   *)
(* the code never reads.                                                   *)

DashboardWithout == [keys |-> {"time_utc"}, Temperature |-> 0, time_utc |-> 0]

Dashboards ==
    {DashboardWithout} \cup
    {[keys |-> {"Temperature", "time_utc"}, Temperature |-> t, time_utc |-> u] :
        t \in Temps, u \in Times}

Modules ==
    {[keys |-> {}, module_name |-> "", dashboard_data |-> DashboardWithout]} \cup
    {[keys |-> {"module_name"}, module_name |-> n, dashboard_data |-> DashboardWithout] :
        n \in ModuleNames} \cup
    {[keys |-> {"module_name", "dashboard_data"}, module_name |-> n, dashboard_data |-> d] :
        n \in ModuleNames, d \in Dashboards}

\* a station record less its modules
StationCores ==
    {[keys |-> {"type"}, station_name |-> "", dashboard_data |-> DashboardWithout],
     [keys |-> {"station_name"}, station_name |-> "Kitchen",
      dashboard_data |-> DashboardWithout]} \cup
    {[keys |-> {"station_name", "type"}, station_name |-> n,
      dashboard_data |-> DashboardWithout] : n \in StationNames} \cup
    {[keys |-> {"station_name", "type", "dashboard_data"}, station_name |-> n,
      dashboard_data |-> d] : n \in StationNames, d \in Dashboards}

\* the shape of a payload: for each station the number of its modules, or
\* NoModulesKey for a station without the key 'modules'
NoModulesKey == -1
ModuleCount(e) == IF e = NoModulesKey THEN 0 ELSE e

\* the shapes of the payloads of exactly n records
RECURSIVE Shapes(_)
Shapes(n) ==
    IF n = 0 THEN {<<>>}
    ELSE UNION {{<<e>> \o s : s \in Shapes(n - 1 - ModuleCount(e))} :
                    e \in {NoModulesKey} \cup 0..(n - 1)}

RECURSIVE ModulesBefore(_, _)
ModulesBefore(shape, n) ==
    IF n = 1 THEN 0 ELSE ModulesBefore(shape, n - 1) + ModuleCount(shape[n - 1])

\* body.devices of the given shape, station cores and modules
Payload(shape, cores, mods) ==
    [n \in 1..Len(shape) |->
        [keys |-> cores[n].keys \cup
                  (IF shape[n] = NoModulesKey THEN {} ELSE {"modules"}),
         station_name |-> cores[n].station_name,
         modules |-> SubSeq(mods, ModulesBefore(shape, n) + 1,
                            ModulesBefore(shape, n) + ModuleCount(shape[n])),
         dashboard_data |-> cores[n].dashboard_data]]

-----------------------------------------------------------------------------
(* Logging: the StreamlitHandler objects attached to `logger` *)

\* logging.Formatter('%(asctime)s - %(levelname)s - %(message)s')
format(record) == <<"asctime", record.levelname, record.message>>

\* emit with `=` for `+=` at line 23: the buffer is replaced
emit_overwrite(ss, record) ==
    [has_log_data |-> TRUE,
     log_data |-> <<[text |-> format(record), end |-> "\n"]>>]

\* StreamlitHandler.emit
emit(ss, record) ==
    LET new_log == <<[text |-> format(record), end |-> "\n"]>>
        log_data == IF ss.has_log_data THEN ss.log_data ELSE <<>>
    IN  [has_log_data |-> TRUE, log_data |-> log_data \o new_log]

\* one call of logger.info / logger.warning / logger.error: the record goes
\* to each of the n attached handlers in turn
RECURSIVE callHandlers(_, _, _)
callHandlers(ss, record, n) ==
    IF n = 0 THEN ss ELSE callHandlers(emit(ss, record), record, n - 1)

\* a sequence of logging calls, in order
RECURSIVE logAll(_, _, _)
logAll(ss, records, n) ==
    IF records = <<>> THEN ss
    ELSE logAll(callHandlers(ss, Head(records), n), Tail(records), n)

Info(message) == [levelname |-> "INFO", message |-> message]
Error(message) == [levelname |-> "ERROR", message |-> message]

-----------------------------------------------------------------------------
(* The shaper: prepare_data from line 106 *)

\* datetime.fromtimestamp: the naive local time of an epoch time, in a zone
\* that sets its clocks back by two hours at epoch time 2
UtcOffset(u) == IF u < 2 THEN 2 ELSE 0
fromtimestamp(u) == u + UtcOffset(u)

\* datetime.date() of a naive local time, a day being 24 hours
date(t) == t \div 24

\* f"{temp:.2f}" of a temperature held in tenths: whole part and hundredths
fmt2f(t) == <<t \div 10, (t % 10) * 10>>

Max(a, b) == IF a >= b THEN a ELSE b

SetMax(S) == CHOOSE x \in S : \A y \in S : y <= x

\* the test of lines 117 and 130 less its second half
HasTemperature_dashboardOnly(obj) == "dashboard_data" \in obj.keys

\* 'dashboard_data' in obj and 'Temperature' in obj['dashboard_data']
HasTemperature(obj) ==
    /\ "dashboard_data" \in obj.keys
    /\ "Temperature" \in obj.dashboard_data.keys

\* the dict of lines 118-123 and 131-136 with the device's name as Module
Point_unlabelled(obj, name, label) ==
    [Time |-> fromtimestamp(obj.dashboard_data.time_utc),
     Temperature |-> obj.dashboard_data.Temperature,
     Device |-> name,
     Module |-> name]

\* the dict appended to data_list
Point(obj, name, label) ==
    [Time |-> fromtimestamp(obj.dashboard_data.time_utc),
     Temperature |-> obj.dashboard_data.Temperature,
     Device |-> name,
     Module |-> label]

\* numpy's argsort of a short column: insertion sort, equal keys in order
InsertByTime(order, n, rows) ==
    LET pos == Cardinality({k \in 1..Len(order) : rows[order[k]].Time <= rows[n].Time})
    IN  SubSeq(order, 1, pos) \o <<n>> \o SubSeq(order, pos + 1, Len(order))

RECURSIVE argsort(_, _)
argsort(rows, n) ==
    IF n = 0 THEN <<>> ELSE InsertByTime(argsort(rows, n - 1), n, rows)

\* lines 151-152 left out: the rows stay in the order of the payload
sort_values_unsorted(rows) == rows

\* df.sort_values('Time', inplace=True)
sort_values(rows) ==
    LET order == argsort(rows, Len(rows))
    IN  [k \in 1..Len(rows) |-> rows[order[k]]]

\* an exception leaves prepare_data and main: the run is over
Raise(type, line) ==
    /\ exc' = [type |-> type, line |-> line]
    /\ pc' = "aborted"

\* the line of lines 110-111 that raises KeyError on this station, or 0
device_KeyError(device) ==
    IF "station_name" \notin device.keys THEN 110
    ELSE IF "type" \notin device.keys THEN 111
    ELSE 0

\* line 130 as module['dashboard_data'] without the test for the key
module_KeyError_strict(module) ==
    IF "module_name" \notin module.keys THEN 129
    ELSE IF "dashboard_data" \notin module.keys THEN 130
    ELSE 0

\* line 129 where it raises KeyError on this module, or 0
module_KeyError(module) ==
    IF "module_name" \notin module.keys THEN 129 ELSE 0

\* lines 109-125: the outer loop takes the next station
DeviceHead ==
    /\ pc = "for_device"
    /\ i < Len(devices)
    /\ LET device == devices[i + 1] IN
        IF device_KeyError(device) = 110
        THEN /\ Raise("KeyError", 110)
             /\ UNCHANGED <<i, j, device_name, modules, max_temp, data_list,
                            device_data_counts>>
        ELSE IF device_KeyError(device) = 111
        THEN /\ Raise("KeyError", 111)
             /\ device_name' = device.station_name
             /\ UNCHANGED <<i, j, modules, max_temp, data_list, device_data_counts>>
        ELSE /\ device_name' = device.station_name
             /\ modules' = IF "modules" \in device.keys THEN device.modules ELSE <<>>
             /\ IF HasTemperature(device)
                THEN /\ data_list' = Append(data_list,
                                        Point(device, device.station_name, "Main Unit"))
                     /\ device_data_counts' =
                            DictSet(device_data_counts, device.station_name, 0 + 1)
                     /\ max_temp' = Max(NegInf, device.dashboard_data.Temperature)
                ELSE /\ data_list' = data_list
                     /\ device_data_counts' =
                            DictSet(device_data_counts, device.station_name, 0)
                     /\ max_temp' = NegInf
             /\ i' = i + 1
             /\ j' = 0
             /\ pc' = "for_module"
             /\ exc' = exc
    /\ UNCHANGED <<run, handlers, session_state, http, response, access_token, response_data,
                   devices, max_temps, df, screen>>

\* lines 128-138: the inner loop takes the next module
ModuleIter ==
    /\ pc = "for_module"
    /\ j < Len(modules)
    /\ LET module == modules[j + 1] IN
        IF module_KeyError(module) # 0
        THEN /\ Raise("KeyError", module_KeyError(module))
             /\ UNCHANGED <<j, max_temp, data_list, device_data_counts>>
        ELSE /\ IF HasTemperature(module)
                THEN /\ data_list' = Append(data_list,
                                        Point(module, device_name, module.module_name))
                     /\ device_data_counts' =
                            DictSet(device_data_counts, device_name,
                                    DictGet(device_data_counts, device_name) + 1)
                     /\ max_temp' = Max(max_temp, module.dashboard_data.Temperature)
                ELSE UNCHANGED <<data_list, device_data_counts, max_temp>>
             /\ j' = j + 1
             /\ UNCHANGED <<pc, exc>>
    /\ UNCHANGED <<run, handlers, session_state, http, response, access_token, response_data,
                   devices, i, device_name, modules, max_temps, df, screen>>

\* lines 140-142: after the station's modules
DeviceTail ==
    /\ pc = "for_module"
    /\ j = Len(modules)
    /\ IF max_temp # NegInf
       THEN LET max_temp_time ==
                    SetMax({data_list[k].Time : k \in
                            {n \in 1..Len(data_list) : data_list[n].Device = device_name}})
            IN  max_temps' = DictSet(max_temps, device_name, <<max_temp, max_temp_time>>)
       ELSE max_temps' = max_temps
    /\ pc' = "for_device"
    /\ UNCHANGED <<run, handlers, session_state, http, response, access_token, response_data,
                   exc, devices, i, j, device_name, modules, max_temp, data_list,
                   device_data_counts, df, screen>>

\* lines 144-153: the two logging loops, the DataFrame and its sort
Summarise ==
    /\ pc = "for_device"
    /\ i = Len(devices)
    /\ LET counts == [n \in 1..Len(device_data_counts) |->
                        Info(<<"Number of data points for",
                               device_data_counts[n][1], device_data_counts[n][2]>>)]
           maxima == [n \in 1..Len(max_temps) |->
                        Info(<<"Maximum temperature for", max_temps[n][1],
                               date(max_temps[n][2][2]), fmt2f(max_temps[n][2][1])>>)]
       IN  session_state' = logAll(session_state, counts \o maxima, handlers)
    /\ df' = IF data_list # <<>> THEN sort_values(data_list) ELSE data_list
    /\ pc' = "returned"
    /\ UNCHANGED <<run, handlers, http, response, access_token, response_data, exc, devices,
                   i, j, device_name, modules, max_temp, data_list,
                   device_data_counts, max_temps, screen>>

\* main, lines 165-173: the chart or the message, then the logs
Render ==
    /\ pc = "returned"
    /\ screen' = screen
                 \o (IF df # <<>> THEN <<"plotly_chart">>
                     ELSE <<"No temperature data available.">>)
                 \o (IF session_state.has_log_data THEN <<"Logs">> ELSE <<>>)
    /\ pc' = "done"
    /\ UNCHANGED <<run, handlers, session_state, http, response, access_token, response_data,
                   exc, shaper_vars>>

InitShaper ==
    /\ pc = "for_device"
    /\ run = 1
    /\ handlers = 1
    /\ session_state = [has_log_data |-> FALSE, log_data |-> <<>>]
    /\ http = <<>>
    /\ response = NoResponse
    /\ access_token = None
    /\ response_data = NotFetched
    /\ exc = NoExc
    /\ \E n \in 0..MaxRecords : \E shape \in Shapes(n) :
        \E cores \in [1..Len(shape) -> StationCores],
           mods \in [1..(n - Len(shape)) -> Modules] :
            devices = Payload(shape, cores, mods)
    /\ i = 0
    /\ j = 0
    /\ device_name = None
    /\ modules = <<>>
    /\ max_temp = NegInf
    /\ data_list = <<>>
    /\ device_data_counts = <<>>
    /\ max_temps = <<>>
    /\ df = <<>>
    /\ screen = <<"title">>

NextShaper == DeviceHead \/ ModuleIter \/ DeviceTail \/ Summarise \/ Render

SpecShaper == InitShaper /\ [][NextShaper]_vars

-----------------------------------------------------------------------------
(* The script as Streamlit runs it: module level, get_access_token,       *)
(* fetch_data, and prepare_data up to line 104                             *)

\* the names bound at module level when fetch_data runs (lines 1-52, 101-162)
ModuleGlobals ==
    {"st", "pd", "px", "datetime", "timedelta", "requests", "os", "logging",
     "logger", "StreamlitHandler", "streamlit_handler", "formatter",
     "CLIENT_ID", "CLIENT_SECRET", "REFRESH_TOKEN", "TOKEN_URL", "DATA_URL",
     "get_access_token", "fetch_data", "prepare_data", "plot_temperatures", "main"}

\* what the token endpoint does with the POST: the transport fails, or a
\* response comes back whose body is or is not JSON, with these keys
TokenResponses ==
    {[transport |-> FALSE, is_json |-> FALSE, keys |-> {}],
     [transport |-> TRUE, is_json |-> FALSE, keys |-> {}],
     [transport |-> TRUE, is_json |-> TRUE, keys |-> {"error"}],
     [transport |-> TRUE, is_json |-> TRUE, keys |-> {"access_token", "refresh_token"}]}

\* line 49 as .get('access_token'): a response without the key gives None
get_access_token_lenient(r) ==
    IF ~r.transport
    THEN [token |-> None, exc |-> [type |-> "ConnectionError", line |-> 48]]
    ELSE IF ~r.is_json
    THEN [token |-> None, exc |-> [type |-> "JSONDecodeError", line |-> 49]]
    ELSE [token |-> IF "access_token" \in r.keys THEN "access_token" ELSE None,
          exc |-> NoExc]

\* get_access_token, lines 48-49: the token returned, or the exception raised
get_access_token(r) ==
    IF ~r.transport
    THEN [token |-> None, exc |-> [type |-> "ConnectionError", line |-> 48]]
    ELSE IF ~r.is_json
    THEN [token |-> None, exc |-> [type |-> "JSONDecodeError", line |-> 49]]
    ELSE IF "access_token" \notin r.keys
    THEN [token |-> None, exc |-> [type |-> "KeyError", line |-> 49]]
    ELSE [token |-> "access_token", exc |-> NoExc]

EmptyList == [type |-> "list", items |-> <<>>]

\* a run of the script starts: the module-level code attaches one more
\* StreamlitHandler to the process-wide logger (lines 11-29), main sets the
\* title (line 163) and calls prepare_data
ScriptStart ==
    /\ pc \in {"idle", "aborted", "done"}
    /\ run < MaxRuns
    /\ run' = run + 1
    /\ handlers' = handlers + 1
    /\ screen' = <<"title">>
    /\ http' = <<>>
    /\ response' = NoResponse
    /\ access_token' = None
    /\ response_data' = NotFetched
    /\ exc' = NoExc
    /\ pc' = "get_access_token"
    /\ UNCHANGED <<session_state, shaper_vars>>

\* prepare_data line 102: get_access_token, lines 41-49
GetAccessToken ==
    /\ pc = "get_access_token"
    /\ \E r \in TokenResponses :
        LET got == get_access_token(r) IN
        /\ http' = Append(http, "POST TOKEN_URL")
        /\ response' = r
        /\ access_token' = got.token
        /\ exc' = got.exc
        /\ pc' = IF got.exc = NoExc THEN "fetch_data" ELSE "aborted"
    /\ UNCHANGED <<run, handlers, session_state, response_data, screen, shaper_vars>>

\* prepare_data line 103: fetch_data, lines 52-67.  Line 59 evaluates the
\* name DEVICES_URL before it can call requests.post; the name is not bound,
\* the NameError is caught at line 65 and fetch_data returns [].  Lines 60-61
\* and 69-98 run only where the name is bound.
FetchData ==
    /\ pc = "fetch_data"
    /\ IF "DEVICES_URL" \in ModuleGlobals
       THEN /\ http' = Append(http, "POST DEVICES_URL")
            /\ session_state' =
                    callHandlers(session_state, Info(<<"Fetching devices...">>), handlers)
            /\ pc' = "fetch_measurements"
            /\ UNCHANGED response_data
       ELSE /\ session_state' =
                    logAll(session_state,
                           <<Info(<<"Fetching devices...">>),
                             Error(<<"Error occurred while fetching devices:",
                                     "NameError">>)>>,
                           handlers)
            /\ response_data' = EmptyList
            /\ pc' = "subscript"
            /\ UNCHANGED http
    /\ UNCHANGED <<run, handlers, response, access_token, exc, screen, shaper_vars>>

\* prepare_data line 104: response_data['body']['devices']
Subscript ==
    /\ pc = "subscript"
    /\ IF response_data.type = "list"
       THEN /\ Raise("TypeError", 104)
            /\ UNCHANGED devices
       ELSE /\ devices' = response_data.body.devices
            /\ pc' = "for_device"
            /\ UNCHANGED exc
    /\ UNCHANGED <<run, handlers, session_state, http, response, access_token, response_data,
                   i, j, device_name, modules, max_temp, data_list,
                   device_data_counts, max_temps, df, screen>>

Init ==
    /\ pc = "idle"
    /\ run = 0
    /\ handlers = 0
    /\ session_state = [has_log_data |-> FALSE, log_data |-> <<>>]
    /\ http = <<>>
    /\ response = NoResponse
    /\ access_token = None
    /\ response_data = NotFetched
    /\ exc = NoExc
    /\ devices = <<>>
    /\ i = 0
    /\ j = 0
    /\ device_name = None
    /\ modules = <<>>
    /\ max_temp = NegInf
    /\ data_list = <<>>
    /\ device_data_counts = <<>>
    /\ max_temps = <<>>
    /\ df = <<>>
    /\ screen = <<>>

Next == ScriptStart \/ GetAccessToken \/ FetchData \/ Subscript

Spec == Init /\ [][Next]_vars

-----------------------------------------------------------------------------
(* Properties *)

Ended == pc \in {"aborted", "done"}
Returned == pc \in {"returned", "done"}

\* the records of the payload: <<n, 0>> is station n, <<n, m>> its module m
RecordIds ==
    {id \in (1..MaxRecords) \X (0..MaxRecords) :
        id[1] <= Len(devices) /\ id[2] <= Len(devices[id[1]].modules)}

RecordAt(id) == IF id[2] = 0 THEN devices[id[1]] ELSE devices[id[1]].modules[id[2]]

\* the records whose dashboard data holds a Temperature
Bearing ==
    {id \in RecordIds :
        /\ "dashboard_data" \in RecordAt(id).keys
        /\ "Temperature" \in RecordAt(id).dashboard_data.keys}

\* the point a Temperature-bearing record stands for
PointOf(id) ==
    [Time |-> RecordAt(id).dashboard_data.time_utc
              + UtcOffset(RecordAt(id).dashboard_data.time_utc),
     Temperature |-> RecordAt(id).dashboard_data.Temperature,
     Device |-> devices[id[1]].station_name,
     Module |-> IF id[2] = 0 THEN "Main Unit" ELSE RecordAt(id).module_name]

Rows(rows, P(_)) == {k \in 1..Len(rows) : P(rows[k])}

\* C1: when the readings call of fetch_data fails (fetch_data returns [] from
\* an except branch), the run ends with prepare_data returning an empty frame
\* and no exception, and main writes 'No temperature data available.'
C1_FetchFailureShowsNoData ==
    (response_data = EmptyList /\ Ended) =>
        /\ exc = NoExc
        /\ df = <<>>
        /\ \E k \in 1..Len(screen) : screen[k] = "No temperature data available."

\* C2: once the token exchange has succeeded and fetch_data has returned,
\* prepare_data walks the returned value as body.devices: line 104 does not
\* raise, and the run ends with the rows of the Temperature-bearing records
C2_FetchedPayloadIsShaped ==
    (access_token # None /\ response_data # NotFetched /\ Ended) =>
        /\ exc = NoExc
        /\ pc = "done"
        /\ Len(df) = Cardinality(Bearing)

C4_SortedByTime ==
    (Returned /\ Len(df) >= 2) =>
        \A k \in 1..(Len(df) - 1) : df[k].Time <= df[k + 1].Time

C4_Witness ==
    /\ pc = "returned"
    /\ Len(data_list) = 2
    /\ data_list[1].Time > data_list[2].Time

\* C5: a station with no modules (the key absent or the list empty) whose
\* dashboard data holds a Temperature gives exactly one row, with Module
\* 'Main Unit' and Device the station's name
C5_StationAloneGivesOneMainUnitPoint ==
    Returned =>
        \A n \in 1..Len(devices) :
            (Len(devices[n].modules) = 0 /\ <<n, 0>> \in Bearing) =>
                LET name == devices[n].station_name
                    IsItsPoint(row) == row = PointOf(<<n, 0>>)
                    HasItsName(row) == row.Device = name
                IN  /\ Cardinality(Rows(df, IsItsPoint)) =
                            Cardinality({id \in Bearing : PointOf(id) = PointOf(<<n, 0>>)})
                    /\ Cardinality(Rows(df, HasItsName)) =
                            Cardinality({id \in Bearing :
                                            devices[id[1]].station_name = name})
                    /\ PointOf(<<n, 0>>).Module = "Main Unit"
                    /\ PointOf(<<n, 0>>).Device = name

C5_Witness ==
    /\ pc = "returned"
    /\ Len(devices) = 1
    /\ "modules" \notin devices[1].keys
    /\ <<1, 0>> \in Bearing
    /\ Len(df) = 1

C7_MalformedRecordIsSkipped ==
    /\ exc = NoExc
    /\ Returned => \A id \in Bearing : \E k \in 1..Len(df) : df[k] = PointOf(id)

\* C8: a run sends exactly one token POST, before any other request; when
\* the exchange fails (transport failure, or a response without
\* access_token) the run is over: no token, fetch_data not entered, no
\* readings request, no rows
TokenExchangeFailed ==
    /\ Len(http) >= 1
    /\ ~(response.transport /\ response.is_json /\ "access_token" \in response.keys)

C8_TokenFailureIsFatal ==
    /\ Cardinality({k \in 1..Len(http) : http[k] = "POST TOKEN_URL"}) <= 1
    /\ Len(http) >= 1 => http[1] = "POST TOKEN_URL"
    /\ (run >= 1 /\ pc # "get_access_token") => Len(http) >= 1
    /\ TokenExchangeFailed =>
            /\ pc = "aborted"
            /\ exc # NoExc
            /\ access_token = None
            /\ response_data = NotFetched
            /\ http = <<"POST TOKEN_URL">>
            /\ data_list = <<>>
            /\ df = <<>>

C8_Witness ==
    /\ pc = "aborted"
    /\ exc = [type |-> "KeyError", line |-> 49]
    /\ http = <<"POST TOKEN_URL">>

\* C9: the log buffer only grows: once session_state holds log_data, every
\* step keeps it and leaves the old content as a prefix of the new, and what
\* a step adds is whole records, each one formatted record and its newline,
\* one per attached handler and logging call
IsPrefix(s, t) == Len(s) <= Len(t) /\ SubSeq(t, 1, Len(s)) = s

C9_LogStep ==
    LET old == session_state.log_data
        new == session_state'.log_data
    IN  /\ session_state.has_log_data => session_state'.has_log_data
        /\ IsPrefix(old, new)
        /\ \A k \in (Len(old) + 1)..Len(new) :
                /\ new[k].end = "\n"
                /\ new[k].text[1] = "asctime"
                /\ new[k].text[2] \in {"INFO", "WARNING", "ERROR"}
        /\ Len(new) - Len(old) = IF pc = "fetch_data" THEN 2 * handlers ELSE 0

C9_LogIsAppendOnly == [][C9_LogStep]_vars

C9_Witness ==
    /\ run >= 2
    /\ pc = "subscript"
    /\ session_state.has_log_data
    /\ Len(session_state.log_data) >= 6

\* C10: for every station that gave a row, max_temps holds the greatest
\* Temperature of the station's rows with the Time of a row that has it, and
\* device_data_counts holds the number of rows with the station's name
C10_AggregatesOfEmittedPoints ==
    Returned =>
        \A name \in {df[k].Device : k \in 1..Len(df)} :
            LET OfName == {k \in 1..Len(df) : df[k].Device = name}
                top == SetMax({df[k].Temperature : k \in OfName})
            IN  /\ DictHas(max_temps, name)
                /\ DictGet(max_temps, name)[1] = top
                /\ \E k \in OfName : /\ df[k].Temperature = top
                                     /\ df[k].Time = DictGet(max_temps, name)[2]
                /\ DictHas(device_data_counts, name)
                /\ DictGet(device_data_counts, name) = Cardinality(OfName)

=============================================================================
